---- MODULE Spec2Model ----
(***************************************************************************)
(* Model of vehicle/mercedes/identity.go: the OAuth2 authorization-code    *)
(* identity of the Mercedes vehicle integration.                           *)
(*                                                                         *)
(* The HTTP handlers (login, logout, callback), SetCallbackParams and the  *)
(* token source's Token() run on concurrent goroutines; each goroutine of  *)
(* Procs executes one operation at a time, split at the points where it    *)
(* touches shared state or may block (Apply, channel send, code exchange). *)
(* NewState/Encrypt/Validate and ReuseTokenSource live in files of the     *)
(* package that are not part of src/; they are modelled after spec.md.     *)
(***************************************************************************)
EXTENDS Naturals, Sequences, FiniteSets

VARIABLES
    sessionSecret,  \* Identity.sessionSecret
    cached,         \* token held by the ReuseTokenSource, NoToken when cleared
    redirectURL,    \* Identity.oc.RedirectURL
    authC,          \* Identity.authC: "nil" or "chan"
    receiver,       \* whether the subscriber is receiving from the channel
    last,           \* last value the subscriber received: "none", "true", "false"
    nextTok,        \* next fresh token the provider hands out
    minted,         \* state strings issued by LoginHandler (history)
    pc,             \* per goroutine: position in its operation
    kind,           \* per goroutine: the operation it runs or ran last
    st,             \* per goroutine: states[0] of the callback query, if examined
    tok,            \* per goroutine: the token of CallbackHandler; for a logout,
                    \* the token that was cached when its Apply(nil) ran
    trace,          \* per goroutine: what its current operation has done so far
    resp,           \* per goroutine: the answer of its operation
    req,            \* per goroutine: what the query of its callback request carried
    stuck,          \* whether the subscriber is blocked in a send of its own
    ctor            \* NewIdentity: its options, loop index, err and what it applied

vars == <<sessionSecret, cached, redirectURL, authC, receiver, last, nextTok,
          minted, pc, kind, st, tok, trace, resp, req, stuck, ctor>>

shared == <<sessionSecret, cached, redirectURL, authC, receiver, last, nextTok,
            minted>>

(***************************************************************************)
(* Bounds                                                                  *)
(***************************************************************************)
MaxNonce == 2   \* distinct nonces NewState can draw
MaxTok == 3     \* tokens the provider hands out, the warm-start token included
MaxOpts == 2    \* options passed to NewIdentity

\* The goroutines that serve requests and call Token(): two, so that any two
\* operations can overlap.
Procs == {"g1", "g2"}
Nonces == 1..MaxNonce
Tokens == 1..MaxTok
NoToken == 0

OwnSecret == "k1"       \* what generateSecret drew for this instance
OtherSecrets == {"k2"}  \* what it drew for other instances
URIs == {"http://evcc.local/callback"}
BaseURI == "/"

(***************************************************************************)
(* State strings: NewState, Encrypt, Validate                              *)
(***************************************************************************)
\* NewState(secret): a state carrying a fresh random nonce n, bound to secret.
NewState(secret, n) == [key |-> secret, nonce |-> n]

\* State.Encrypt(): the opaque, authenticated string put in the state parameter.
Encrypt(s) == [k |-> s.key, n |-> s.nonce, intact |-> TRUE]

\* A string that does not decode at all.
Malformed == [k |-> "", n |-> 0, intact |-> FALSE]

\* A minted string with a byte changed: the authentication tag no longer fits.
Tamper(e) == [e EXCEPT !.intact = FALSE]

\* Validate(string, secret): nil iff the string decrypts and verifies under secret.
Validate(e, secret) == e.intact /\ e.k = secret

\* What a browser, another instance or an attacker can present as state: strings
\* this instance has issued, such strings modified, strings of an instance with
\* another secret, and garbage.
Presentable ==
    minted
      \cup {Tamper(e) : e \in minted}
      \cup {Encrypt(NewState(k, n)) : k \in OtherSecrets, n \in Nonces}
      \cup {Malformed}

\* The state lists a query can carry: none, one, or the same parameter twice.
StateLists == {<<>>} \cup {<<e>> : e \in Presentable} \cup {<<e, e>> : e \in minted}

\* A callback query: parseErr, the raw query does not parse; hasError, it has an
\* error parameter; states, its state values; ncodes, how many code values.
Query(parseErr, hasError, states, ncodes) ==
    [parseErr |-> parseErr, hasError |-> hasError, states |-> states, ncodes |-> ncodes]

\* The queries tried: every state list with one code; an issued state with
\* zero, one or two codes; the otherwise acceptable queries (one issued state,
\* one code) that do not parse or carry an error parameter; and the latter
\* without state and code.
Queries ==
    {Query(FALSE, FALSE, sl, 1) : sl \in StateLists}
      \cup {Query(FALSE, FALSE, <<e>>, nc) : e \in minted, nc \in 0..2}
      \cup {Query(pe, he, <<e>>, 1) : pe \in BOOLEAN, he \in BOOLEAN, e \in minted}
      \cup {Query(TRUE, FALSE, <<>>, 0), Query(FALSE, TRUE, <<>>, 0)}

(***************************************************************************)
(* Responses                                                               *)
(***************************************************************************)
NoResp == [status |-> 0, reason |-> "", location |-> "", state |-> <<>>,
           ret |-> NoToken, stale |-> FALSE]

Body(reason) == [NoResp EXCEPT !.status = 200, !.reason = reason]

Redirect(reason, uri) == [NoResp EXCEPT !.status = 302, !.reason = reason, !.location = uri]

\* What a callback query carried: whether it failed to parse, whether it had an
\* error parameter, and whether its state and code were acceptable (one state
\* that validates, one code).
NoReq == [parseErr |-> FALSE, hasError |-> FALSE, good |-> FALSE]

Carried(q) ==
    [parseErr |-> q.parseErr,
     hasError |-> q.hasError,
     good |-> /\ Len(q.states) = 1
              /\ Validate(q.states[1], sessionSecret)
              /\ q.ncodes = 1]

Free(p) == pc[p] \in {"idle", "done"}

\* What the current operation of goroutine p has done so far.
Has(p, ev) == \E i \in 1..Len(trace[p]) : trace[p][i] = ev

CountIn(tr, ev) == Cardinality({i \in 1..Len(tr) : tr[i] = ev})

Count(p, ev) == CountIn(trace[p], ev)

\* A goroutine picks up a new operation: its locals start afresh.
Begin(p, k) ==
    /\ Free(p)
    /\ kind' = [kind EXCEPT ![p] = k]

\* NewIdentity has returned without error and the identity is in service.
Serving == [phase |-> "serving", options |-> <<>>, i |-> 0, err |-> FALSE,
            applied |-> <<>>]

Init ==
    /\ sessionSecret = OwnSecret
    /\ cached \in {NoToken, 1}
    /\ redirectURL = ""
    /\ authC = "nil"
    /\ receiver = FALSE
    /\ last = "none"
    /\ nextTok = 2
    /\ minted = {}
    /\ pc = [p \in Procs |-> "idle"]
    /\ kind = [p \in Procs |-> "none"]
    /\ st = [p \in Procs |-> <<>>]
    /\ tok = [p \in Procs |-> NoToken]
    /\ trace = [p \in Procs |-> <<>>]
    /\ resp = [p \in Procs |-> NoResp]
    /\ req = [p \in Procs |-> NoReq]
    /\ stuck = FALSE
    /\ ctor = Serving

(***************************************************************************)
(* SetCallbackParams and the subscriber                                    *)
(***************************************************************************)
SetCallbackParams(uri) ==
    /\ redirectURL' = uri
    /\ authC' = "chan"
    /\ UNCHANGED <<sessionSecret, cached, receiver, last, nextTok, minted,
                   pc, kind, st, tok, trace, resp>>
    /\ UNCHANGED <<req, stuck, ctor>>

\* The framework that owns the channel starts receiving from it.
StartReceiver ==
    /\ authC = "chan"
    /\ ~receiver
    /\ ~stuck
    /\ receiver' = TRUE
    /\ UNCHANGED <<sessionSecret, cached, redirectURL, authC, last, nextTok, minted,
                   pc, kind, st, tok, trace, resp>>
    /\ UNCHANGED <<req, stuck, ctor>>

\* v.authC <- b on an unbuffered channel: possible only while the channel is set
\* (a send on a nil channel blocks forever) and the subscriber takes the value.
CanSend == authC = "chan" /\ receiver

Deliver(b) == last' = IF b THEN "true" ELSE "false"

(***************************************************************************)
(* LoginHandler                                                            *)
(***************************************************************************)
\* Mutant: draws a new secret for every login instead of using v.sessionSecret.
LoginHandler_FreshSecret(p, n) ==
    /\ Begin(p, "login")
    /\ \E k \in OtherSecrets :
          LET e == Encrypt(NewState(k, n))
          IN /\ minted' = minted \cup {e}
             /\ resp' = [resp EXCEPT ![p] = [Body("loginUri") EXCEPT !.state = <<e>>]]
    /\ pc' = [pc EXCEPT ![p] = "done"]
    /\ st' = [st EXCEPT ![p] = <<>>]
    /\ tok' = [tok EXCEPT ![p] = NoToken]
    /\ trace' = [trace EXCEPT ![p] = <<>>]
    /\ UNCHANGED <<sessionSecret, cached, redirectURL, authC, receiver, last, nextTok>>
    /\ req' = [req EXCEPT ![p] = NoReq]
    /\ UNCHANGED <<stuck, ctor>>

\* Mutant: a login request first drops the token that is cached.
LoginHandler_Logout(p, n) ==
    /\ Begin(p, "login")
    /\ cached' = NoToken
    /\ LET e == Encrypt(NewState(sessionSecret, n))
       IN /\ minted' = minted \cup {e}
          /\ resp' = [resp EXCEPT ![p] = [Body("loginUri") EXCEPT !.state = <<e>>]]
    /\ pc' = [pc EXCEPT ![p] = "done"]
    /\ st' = [st EXCEPT ![p] = <<>>]
    /\ tok' = [tok EXCEPT ![p] = NoToken]
    /\ trace' = [trace EXCEPT ![p] = <<>>]
    /\ UNCHANGED <<sessionSecret, redirectURL, authC, receiver, last, nextTok>>
    /\ req' = [req EXCEPT ![p] = NoReq]
    /\ UNCHANGED <<stuck, ctor>>

LoginHandler(p, n) ==
    /\ Begin(p, "login")
    /\ LET e == Encrypt(NewState(sessionSecret, n))
       IN /\ minted' = minted \cup {e}
          /\ resp' = [resp EXCEPT ![p] = [Body("loginUri") EXCEPT !.state = <<e>>]]
    /\ pc' = [pc EXCEPT ![p] = "done"]
    /\ st' = [st EXCEPT ![p] = <<>>]
    /\ tok' = [tok EXCEPT ![p] = NoToken]
    /\ trace' = [trace EXCEPT ![p] = <<>>]
    /\ UNCHANGED <<sessionSecret, cached, redirectURL, authC, receiver, last, nextTok>>
    /\ req' = [req EXCEPT ![p] = NoReq]
    /\ UNCHANGED <<stuck, ctor>>

(***************************************************************************)
(* LogoutHandler                                                           *)
(***************************************************************************)
\* Mutant: the logout forgets Apply(nil) and only notifies.
LogoutApply_KeepToken(p) ==
    /\ Begin(p, "logout")
    /\ pc' = [pc EXCEPT ![p] = "lo_send"]
    /\ st' = [st EXCEPT ![p] = <<>>]
    /\ tok' = [tok EXCEPT ![p] = cached]
    /\ trace' = [trace EXCEPT ![p] = <<"apply_nil">>]
    /\ resp' = [resp EXCEPT ![p] = NoResp]
    /\ UNCHANGED <<sessionSecret, cached, redirectURL, authC, receiver, last, nextTok,
                   minted>>
    /\ req' = [req EXCEPT ![p] = NoReq]
    /\ UNCHANGED <<stuck, ctor>>

\* v.ReuseTokenSource.Apply(nil)
LogoutApply(p) ==
    /\ Begin(p, "logout")
    /\ cached' = NoToken
    /\ pc' = [pc EXCEPT ![p] = "lo_send"]
    /\ st' = [st EXCEPT ![p] = <<>>]
    /\ tok' = [tok EXCEPT ![p] = cached]
    /\ trace' = [trace EXCEPT ![p] = <<"apply_nil">>]
    /\ resp' = [resp EXCEPT ![p] = NoResp]
    /\ UNCHANGED <<sessionSecret, redirectURL, authC, receiver, last, nextTok, minted>>
    /\ req' = [req EXCEPT ![p] = NoReq]
    /\ UNCHANGED <<stuck, ctor>>

\* v.authC <- false
LogoutSend(p) ==
    /\ pc[p] = "lo_send"
    /\ CanSend
    /\ Deliver(FALSE)
    /\ trace' = [trace EXCEPT ![p] = Append(@, "notify_false")]
    /\ pc' = [pc EXCEPT ![p] = "lo_respond"]
    /\ UNCHANGED <<sessionSecret, cached, redirectURL, authC, receiver, nextTok, minted,
                   kind, st, tok, resp>>
    /\ UNCHANGED <<req, stuck, ctor>>

\* w.WriteHeader(http.StatusOK); w.Write(nil)
LogoutRespond(p) ==
    /\ pc[p] = "lo_respond"
    /\ resp' = [resp EXCEPT ![p] = Body("")]
    /\ pc' = [pc EXCEPT ![p] = "done"]
    /\ UNCHANGED <<shared, kind, st, tok, trace>>
    /\ UNCHANGED <<req, stuck, ctor>>

(***************************************************************************)
(* CallbackHandler                                                         *)
(***************************************************************************)
\* The query checks of the handler, in the order of the code: url.ParseQuery,
\* the error parameter, the state parameter and its validation, the code
\* parameter.  parseErr: the raw query does not parse; hasError: the query has
\* an error parameter; states, ncodes: the state values and the number of code
\* values of the query.
\* Mutant: the state parameter is only checked for presence, not validated.
CallbackOutcome_NoValidate(parseErr, hasError, states, ncodes) ==
    IF parseErr THEN "invalid_query"
    ELSE IF hasError THEN "provider_error"
    ELSE IF Len(states) # 1 THEN "invalid_state_response"
    ELSE IF ncodes # 1 THEN "invalid_code_response"
    ELSE "exchange"

\* Mutant: a state that a callback request on record has accepted is refused.
CallbackOutcome_Consume(parseErr, hasError, states, ncodes) ==
    IF parseErr THEN "invalid_query"
    ELSE IF hasError THEN "provider_error"
    ELSE IF Len(states) # 1 THEN "invalid_state_response"
    ELSE IF \/ ~Validate(states[1], sessionSecret)
            \/ \E r \in Procs : /\ kind[r] = "callback"
                                 /\ Has(r, "validate_ok")
                                 /\ st[r] = states
         THEN "failed_state_validation"
    ELSE IF ncodes # 1 THEN "invalid_code_response"
    ELSE "exchange"

\* Mutant: the error parameter is looked at only when state or code are not
\* acceptable.
CallbackOutcome_ErrorLast(parseErr, hasError, states, ncodes) ==
    IF parseErr THEN "invalid_query"
    ELSE IF Len(states) = 1 /\ ncodes = 1 /\ Validate(states[1], sessionSecret)
         THEN "exchange"
    ELSE IF hasError THEN "provider_error"
    ELSE IF Len(states) # 1 THEN "invalid_state_response"
    ELSE IF ~Validate(states[1], sessionSecret) THEN "failed_state_validation"
    ELSE "invalid_code_response"

CallbackOutcome(parseErr, hasError, states, ncodes) ==
    IF parseErr THEN "invalid_query"
    ELSE IF hasError THEN "provider_error"
    ELSE IF Len(states) # 1 THEN "invalid_state_response"
    ELSE IF ~Validate(states[1], sessionSecret) THEN "failed_state_validation"
    ELSE IF ncodes # 1 THEN "invalid_code_response"
    ELSE "exchange"

\* Whether the handler got as far as looking at states[0].
Examined(parseErr, hasError, states) == ~parseErr /\ ~hasError /\ Len(states) = 1

CallbackRequest(p, q) ==
    /\ Begin(p, "callback")
    /\ LET out == CallbackOutcome(q.parseErr, q.hasError, q.states, q.ncodes)
           seen == Examined(q.parseErr, q.hasError, q.states)
           valid == out \in {"invalid_code_response", "exchange"}
       IN /\ st' = [st EXCEPT ![p] = IF seen THEN q.states ELSE <<>>]
          /\ trace' = [trace EXCEPT ![p] = IF valid THEN <<"validate_ok">> ELSE <<>>]
          /\ IF out = "exchange"
                THEN /\ pc' = [pc EXCEPT ![p] = "cb_exchange"]
                     /\ resp' = [resp EXCEPT ![p] = NoResp]
                ELSE /\ pc' = [pc EXCEPT ![p] = "done"]
                     /\ resp' = [resp EXCEPT ![p] = Body(out)]
    /\ tok' = [tok EXCEPT ![p] = NoToken]
    /\ UNCHANGED <<sessionSecret, cached, redirectURL, authC, receiver, last, nextTok,
                   minted>>
    /\ req' = [req EXCEPT ![p] = Carried(q)]
    /\ UNCHANGED <<stuck, ctor>>

\* Mutant: a failed exchange also drops the cached token.
CallbackExchange_ClearOnError(p) ==
    /\ pc[p] = "cb_exchange"
    /\ \/ /\ trace' = [trace EXCEPT ![p] = Append(@, "exchange")]
          /\ resp' = [resp EXCEPT ![p] = Body("token_error")]
          /\ pc' = [pc EXCEPT ![p] = "done"]
          /\ cached' = NoToken
          /\ UNCHANGED <<tok, nextTok>>
       \/ /\ nextTok \in Tokens
          /\ trace' = [trace EXCEPT ![p] = @ \o <<"exchange", "exchange_ok">>]
          /\ tok' = [tok EXCEPT ![p] = nextTok]
          /\ nextTok' = nextTok + 1
          /\ pc' = [pc EXCEPT ![p] = "cb_apply"]
          /\ UNCHANGED <<resp, cached>>
       \/ /\ trace' = [trace EXCEPT ![p] = @ \o <<"exchange", "exchange_ok">>]
          /\ pc' = [pc EXCEPT ![p] = "cb_redirect"]
          /\ UNCHANGED <<tok, nextTok, resp, cached>>
    /\ UNCHANGED <<sessionSecret, redirectURL, authC, receiver, last, minted, kind, st>>
    /\ UNCHANGED <<req, stuck, ctor>>

\* token, err := v.oc.Exchange(ctx, codes[0]) followed by token.Valid():
\* the provider refuses the code, or answers with a token that is valid, or
\* answers with a token that is not (it expires within the expiry margin).
CallbackExchange(p) ==
    /\ pc[p] = "cb_exchange"
    /\ \/ /\ trace' = [trace EXCEPT ![p] = Append(@, "exchange")]
          /\ resp' = [resp EXCEPT ![p] = Body("token_error")]
          /\ pc' = [pc EXCEPT ![p] = "done"]
          /\ UNCHANGED <<tok, nextTok>>
       \/ /\ nextTok \in Tokens
          /\ trace' = [trace EXCEPT ![p] = @ \o <<"exchange", "exchange_ok">>]
          /\ tok' = [tok EXCEPT ![p] = nextTok]
          /\ nextTok' = nextTok + 1
          /\ pc' = [pc EXCEPT ![p] = "cb_apply"]
          /\ UNCHANGED resp
       \/ /\ trace' = [trace EXCEPT ![p] = @ \o <<"exchange", "exchange_ok">>]
          /\ pc' = [pc EXCEPT ![p] = "cb_redirect"]
          /\ UNCHANGED <<tok, nextTok, resp>>
    /\ UNCHANGED <<sessionSecret, cached, redirectURL, authC, receiver, last, minted,
                   kind, st>>
    /\ UNCHANGED <<req, stuck, ctor>>

\* Mutant: the handler notifies before it applies the token.
CallbackApply_NotifyFirst(p) ==
    /\ pc[p] = "cb_apply"
    /\ CanSend
    /\ Deliver(TRUE)
    /\ cached' = tok[p]
    /\ trace' = [trace EXCEPT ![p] = @ \o <<"notify_true", "apply">>]
    /\ pc' = [pc EXCEPT ![p] = "cb_redirect"]
    /\ UNCHANGED <<sessionSecret, redirectURL, authC, receiver, nextTok, minted,
                   kind, st, tok, resp>>
    /\ UNCHANGED <<req, stuck, ctor>>

\* v.ReuseTokenSource.Apply(token)
CallbackApply(p) ==
    /\ pc[p] = "cb_apply"
    /\ cached' = tok[p]
    /\ trace' = [trace EXCEPT ![p] = Append(@, "apply")]
    /\ pc' = [pc EXCEPT ![p] = "cb_send"]
    /\ UNCHANGED <<sessionSecret, redirectURL, authC, receiver, last, nextTok, minted,
                   kind, st, tok, resp>>
    /\ UNCHANGED <<req, stuck, ctor>>

\* v.authC <- true
CallbackSend(p) ==
    /\ pc[p] = "cb_send"
    /\ CanSend
    /\ Deliver(TRUE)
    /\ trace' = [trace EXCEPT ![p] = Append(@, "notify_true")]
    /\ pc' = [pc EXCEPT ![p] = "cb_redirect"]
    /\ UNCHANGED <<sessionSecret, cached, redirectURL, authC, receiver, nextTok, minted,
                   kind, st, tok, resp>>
    /\ UNCHANGED <<req, stuck, ctor>>

\* provider.ResetCached(); http.Redirect(w, r, baseURI, http.StatusFound)
CallbackRedirect(p) ==
    /\ pc[p] = "cb_redirect"
    /\ resp' = [resp EXCEPT ![p] = Redirect(IF tok[p] = NoToken THEN "token_not_valid"
                                                               ELSE "login", BaseURI)]
    /\ pc' = [pc EXCEPT ![p] = "done"]
    /\ UNCHANGED <<shared, kind, st, tok, trace>>
    /\ UNCHANGED <<req, stuck, ctor>>

(***************************************************************************)
(* ReuseTokenSource.Token and the invalidation callback                    *)
(***************************************************************************)
\* Token(): the cached token if it is still valid; otherwise a refresh, which
\* caches and returns a new token, or fails: then the cache is cleared and, on
\* a transition into the no-valid-token state, the callback runs before the
\* error is returned.  Without a cached token there is no refresh token and the
\* refresh fails.
\* Whether a logout (still on record) has dropped token t from the cache.
Dropped(t) == \E l \in Procs : kind[l] = "logout" /\ tok[l] = t

TokenCall(p) ==
    /\ Begin(p, "token")
    /\ st' = [st EXCEPT ![p] = <<>>]
    /\ tok' = [tok EXCEPT ![p] = NoToken]
    /\ \/ /\ cached # NoToken
          /\ resp' = [resp EXCEPT ![p] = [NoResp EXCEPT !.reason = "token", !.ret = cached,
                                                        !.stale = Dropped(cached)]]
          /\ trace' = [trace EXCEPT ![p] = <<>>]
          /\ pc' = [pc EXCEPT ![p] = "done"]
          /\ UNCHANGED <<cached, nextTok>>
       \/ /\ cached # NoToken
          /\ nextTok \in Tokens
          /\ cached' = nextTok
          /\ nextTok' = nextTok + 1
          /\ resp' = [resp EXCEPT ![p] = [NoResp EXCEPT !.reason = "token", !.ret = nextTok,
                                                        !.stale = Dropped(nextTok)]]
          /\ trace' = [trace EXCEPT ![p] = <<>>]
          /\ pc' = [pc EXCEPT ![p] = "done"]
       \/ /\ cached # NoToken
          /\ cached' = NoToken
          /\ resp' = [resp EXCEPT ![p] = NoResp]
          /\ trace' = [trace EXCEPT ![p] = <<"refresh_failed", "invalidated">>]
          /\ pc' = [pc EXCEPT ![p] = "tk_cb"]
          /\ UNCHANGED nextTok
       \/ /\ cached = NoToken
          /\ resp' = [resp EXCEPT ![p] = [NoResp EXCEPT !.reason = "refresh_error"]]
          /\ trace' = [trace EXCEPT ![p] = <<"refresh_failed">>]
          /\ pc' = [pc EXCEPT ![p] = "done"]
          /\ UNCHANGED <<cached, nextTok>>
    /\ UNCHANGED <<sessionSecret, redirectURL, authC, receiver, last, minted>>
    /\ req' = [req EXCEPT ![p] = NoReq]
    /\ UNCHANGED <<stuck, ctor>>

\* Mutant: the callback returns without sending.
invalidToken_Silent(p) ==
    /\ pc[p] = "tk_cb"
    /\ trace' = [trace EXCEPT ![p] = Append(@, "cb")]
    /\ resp' = [resp EXCEPT ![p] = [NoResp EXCEPT !.reason = "refresh_error"]]
    /\ pc' = [pc EXCEPT ![p] = "done"]
    /\ UNCHANGED <<shared, kind, st, tok>>
    /\ UNCHANGED <<req, stuck, ctor>>

\* Identity.invalidToken, run by Token() as ts.cb; Token() then returns the error.
invalidToken(p) ==
    /\ pc[p] = "tk_cb"
    /\ \/ /\ authC = "nil"
          /\ trace' = [trace EXCEPT ![p] = Append(@, "cb")]
          /\ UNCHANGED last
       \/ /\ CanSend
          /\ Deliver(FALSE)
          /\ trace' = [trace EXCEPT ![p] = @ \o <<"cb", "notify_false">>]
    /\ resp' = [resp EXCEPT ![p] = [NoResp EXCEPT !.reason = "refresh_error"]]
    /\ pc' = [pc EXCEPT ![p] = "done"]
    /\ UNCHANGED <<sessionSecret, cached, redirectURL, authC, receiver, nextTok, minted,
                   kind, st, tok>>
    /\ UNCHANGED <<req, stuck, ctor>>

\* The subscriber reacts to a notification by calling Token() from the loop in
\* which it receives.  A call that returns the cached token, or fails without a
\* cached token, changes nothing; a refresh caches a new token; a failed refresh
\* clears the cache and runs invalidToken on the subscriber's own goroutine:
\* the channel is set, so the callback sends, and the only receiver of that
\* send is the goroutine that is sending.
SubscriberToken ==
    /\ receiver
    /\ last # "none"
    /\ cached # NoToken
    /\ \/ /\ nextTok \in Tokens
          /\ cached' = nextTok
          /\ nextTok' = nextTok + 1
          /\ UNCHANGED <<receiver, stuck>>
       \/ /\ cached' = NoToken
          /\ receiver' = FALSE
          /\ stuck' = TRUE
          /\ UNCHANGED nextTok
    /\ UNCHANGED <<sessionSecret, redirectURL, authC, last, minted,
                   pc, kind, st, tok, trace, resp, req, ctor>>

Next ==
    \/ \E uri \in URIs : SetCallbackParams(uri)
    \/ StartReceiver
    \/ SubscriberToken
    \/ \E p \in Procs, n \in Nonces : LoginHandler(p, n)
    \/ \E p \in Procs : LogoutApply(p)
    \/ \E p \in Procs : LogoutSend(p)
    \/ \E p \in Procs : LogoutRespond(p)
    \/ \E p \in Procs, q \in Queries : CallbackRequest(p, q)
    \/ \E p \in Procs : CallbackExchange(p)
    \/ \E p \in Procs : CallbackApply(p)
    \/ \E p \in Procs : CallbackSend(p)
    \/ \E p \in Procs : CallbackRedirect(p)
    \/ \E p \in Procs : TokenCall(p)
    \/ \E p \in Procs : invalidToken(p)

Spec == Init /\ [][Next]_vars

\* A goroutine that can take its next step takes it; requests arrive, and the
\* subscriber starts receiving, when they please.
Progress(p) ==
    \/ LogoutSend(p) \/ LogoutRespond(p)
    \/ CallbackExchange(p) \/ CallbackApply(p) \/ CallbackSend(p) \/ CallbackRedirect(p)
    \/ invalidToken(p)

FairSpec == Spec /\ \A p \in Procs : WF_vars(Progress(p))

\* The same with a subscriber that does receive: once the channel is set it
\* starts receiving and takes every value offered to it.
SubscriberSpec == FairSpec /\ WF_vars(StartReceiver)

(***************************************************************************)
(* NewIdentity and its options                                             *)
(***************************************************************************)
\* WithToken(t): the option that applies t to the token source.
WithToken(t) == [name |-> "WithToken", t |-> t]

\* An option that returns an error.
Failing == [name |-> "failing", t |-> NoToken]

Options == {Failing} \cup {WithToken(t) : t \in Tokens}

OptionLists == UNION {[1..n -> Options] : n \in 0..MaxOpts}

\* The frame of a constructor step: nothing is in service yet.
CtorFrame == UNCHANGED <<redirectURL, authC, receiver, last, nextTok, minted,
                         pc, kind, st, tok, trace, resp, req, stuck>>

\* NewIdentity is entered with some options; the token source is new.
CtorInit ==
    /\ sessionSecret = ""
    /\ cached = NoToken
    /\ redirectURL = ""
    /\ authC = "nil"
    /\ receiver = FALSE
    /\ last = "none"
    /\ nextTok = 2
    /\ minted = {}
    /\ pc = [p \in Procs |-> "idle"]
    /\ kind = [p \in Procs |-> "none"]
    /\ st = [p \in Procs |-> <<>>]
    /\ tok = [p \in Procs |-> NoToken]
    /\ trace = [p \in Procs |-> <<>>]
    /\ resp = [p \in Procs |-> NoResp]
    /\ req = [p \in Procs |-> NoReq]
    /\ stuck = FALSE
    /\ ctor \in {[phase |-> "new", options |-> o, i |-> 0, err |-> FALSE,
                   applied |-> <<>>] : o \in OptionLists}

\* ts.Apply(nil)
NewIdentityApply ==
    /\ ctor.phase = "new"
    /\ cached' = NoToken
    /\ ctor' = [ctor EXCEPT !.phase = "secret"]
    /\ UNCHANGED sessionSecret
    /\ CtorFrame

\* v.sessionSecret, err = generateSecret()
GenerateSecret ==
    /\ ctor.phase = "secret"
    /\ \/ /\ sessionSecret' = OwnSecret
          /\ ctor' = [ctor EXCEPT !.phase = "options"]
       \/ /\ sessionSecret' = ""
          /\ ctor' = [ctor EXCEPT !.phase = "options", !.err = TRUE]
    /\ UNCHANGED cached
    /\ CtorFrame

\* Mutant: the loop applies every option, whatever err holds.
ApplyOption_IgnoreErr ==
    /\ ctor.phase = "options"
    /\ ctor.i < Len(ctor.options)
    /\ LET j == ctor.i + 1
           o == ctor.options[j]
       IN /\ ctor' = [ctor EXCEPT !.i = j,
                                  !.applied = Append(@, j),
                                  !.err = (o.name = "failing")]
          /\ cached' = IF o.name = "WithToken" THEN o.t ELSE cached
    /\ UNCHANGED sessionSecret
    /\ CtorFrame

\* One turn of the loop over options: if err == nil { err = o(v) }; the option
\* WithToken(t) does v.ReuseTokenSource.Apply(t) and returns nil.
ApplyOption ==
    /\ ctor.phase = "options"
    /\ ctor.i < Len(ctor.options)
    /\ LET j == ctor.i + 1
           o == ctor.options[j]
       IN IF ctor.err
             THEN /\ ctor' = [ctor EXCEPT !.i = j]
                  /\ UNCHANGED cached
             ELSE /\ ctor' = [ctor EXCEPT !.i = j,
                                          !.applied = Append(@, j),
                                          !.err = (o.name = "failing")]
                  /\ cached' = IF o.name = "WithToken" THEN o.t ELSE cached
    /\ UNCHANGED sessionSecret
    /\ CtorFrame

\* return v, err
NewIdentityReturn ==
    /\ ctor.phase = "options"
    /\ ctor.i = Len(ctor.options)
    /\ ctor' = [ctor EXCEPT !.phase = "returned"]
    /\ UNCHANGED <<sessionSecret, cached>>
    /\ CtorFrame

\* The caller takes an identity that was returned without error into service.
Serve ==
    /\ ctor.phase = "returned"
    /\ ~ctor.err
    /\ ctor' = Serving
    /\ UNCHANGED <<sessionSecret, cached>>
    /\ CtorFrame

CtorNext ==
    \/ NewIdentityApply
    \/ GenerateSecret
    \/ ApplyOption
    \/ NewIdentityReturn
    \/ Serve

CtorSpec == CtorInit /\ [][CtorNext]_vars

(***************************************************************************)
(* Properties                                                              *)
(***************************************************************************)
IsPrefix(a, b) == Len(a) <= Len(b) /\ \A i \in 1..Len(a) : a[i] = b[i]

\* Goroutine p has served an operation of kind k and holds its answer.
Served(p, k) == kind[p] = k /\ pc[p] = "done"

\* What a callback request does on its way to a login, in order.
LoginSteps == <<"validate_ok", "exchange", "exchange_ok", "apply", "notify_true">>

\* The diagnostics a failing callback request answers with.
Failures == {"invalid_query", "provider_error", "invalid_state_response",
             "failed_state_validation", "invalid_code_response", "token_error"}

\* The login transition as one request performs it: token applied once, true sent once.
LoggedIn(p) == Count(p, "apply") = 1 /\ Count(p, "notify_true") = 1

\* No part of the login transition.
Untouched(p) == ~Has(p, "apply") /\ ~Has(p, "notify_true") /\ ~Has(p, "notify_false")

\* C1: a callback request without error parameter, with exactly one state that
\* validates, exactly one code and a successful code exchange, once answered,
\* has applied the exchanged token, sent exactly one true and answers 302 to
\* the base URI.
C1_SuccessfulCallback ==
    \A p \in Procs :
        Served(p, "callback") /\ Has(p, "exchange_ok")
            => /\ resp[p].status = 302
               /\ resp[p].location = BaseURI
               /\ tok[p] # NoToken
               /\ LoggedIn(p)

\* C2: every answered callback request is either a success (302 to the base
\* URI, token applied, true sent) or a failure (200 with a diagnostic, no
\* redirect, nothing applied, nothing sent); never a 302 without the login.
C2_TwoOutcomes ==
    \A p \in Procs :
        Served(p, "callback")
            => \/ /\ resp[p].status = 302
                  /\ resp[p].location = BaseURI
                  /\ LoggedIn(p)
               \/ /\ resp[p].status = 200
                  /\ resp[p].reason \in Failures
                  /\ resp[p].location = ""
                  /\ Untouched(p)

\* A step in which goroutine p ends a callback request with a failure.
FailsCallback(p) ==
    /\ <<pc[p], kind[p], resp[p], st[p]>> # <<pc'[p], kind'[p], resp'[p], st'[p]>>
    /\ kind'[p] = "callback"
    /\ pc'[p] = "done"
    /\ resp'[p].reason \in Failures

C3_FailureAnswer ==
    \A p \in Procs :
        Served(p, "callback") /\ resp[p].reason \in Failures
            => /\ resp[p].status = 200
               /\ resp[p].location = ""
               /\ Untouched(p)

\* C3: a callback request that fails (query, provider error, state, code or
\* exchange) answers 200 with the diagnostic and no redirect, has applied no
\* token and sent nothing, and the step that ends it leaves the cached token
\* and the subscriber's last notification as they were.
C3_FailureLeavesToken ==
    /\ []C3_FailureAnswer
    /\ [][\A p \in Procs : FailsCallback(p) => cached' = cached /\ last' = last]_vars

C3_Witness ==
    \E p \in Procs :
        /\ Served(p, "callback")
        /\ resp[p].reason = "token_error"
        /\ cached # NoToken

\* C4: within one callback request the steps come in the fixed order state
\* validation, code exchange, token application, notification; and a request
\* is at, or past, the code exchange only with a state that validated.
C4_StepOrder ==
    \A p \in Procs :
        kind[p] = "callback"
            => /\ IsPrefix(trace[p], LoginSteps)
               /\ (pc[p] = "cb_exchange" \/ Has(p, "exchange"))
                     => /\ Has(p, "validate_ok")
                        /\ Len(st[p]) = 1
                        /\ Validate(st[p][1], sessionSecret)

C4_Witness ==
    \E p \in Procs : Served(p, "callback") /\ trace[p] = LoginSteps

\* A step in which goroutine p runs the Apply(nil) of a logout request.
AppliesNil(p) == pc[p] # "lo_send" /\ pc'[p] = "lo_send"

C5_LogoutAnswer ==
    /\ \A p \in Procs :
          Served(p, "logout")
              => /\ resp[p].status = 200
                 /\ trace[p] = <<"apply_nil", "notify_false">>
    /\ \A q \in Procs : Served(q, "token") => ~resp[q].stale

C6_StateOrigin ==
    /\ \A p \in Procs :
          kind[p] = "callback" /\ Has(p, "validate_ok")
              => Len(st[p]) = 1 /\ st[p][1] \in minted
    /\ \A p \in Procs :
          kind[p] = "callback" /\ Len(st[p]) = 1 /\ st[p][1].k \in OtherSecrets
              => /\ pc[p] = "done"
                 /\ resp[p].status = 200
                 /\ resp[p].reason = "failed_state_validation"
                 /\ resp[p].location = ""
                 /\ Untouched(p)
    /\ (last = "true" \/ \E p \in Procs : Has(p, "notify_true")) => minted # {}

C6_Witness ==
    \E p \in Procs :
        /\ Served(p, "callback")
        /\ Len(st[p]) = 1 /\ st[p][1].k \in OtherSecrets /\ st[p][1].intact
        /\ minted # {}

\* C7: every state a login request has issued validates under the session
\* secret in every later state, whatever happened in between: the state in a
\* login answer validates, and a callback request presenting an issued state
\* passes state validation.
C7_RoundTrip ==
    /\ \A e \in minted : Validate(e, sessionSecret)
    /\ \A p \in Procs :
          Served(p, "login")
              => /\ resp[p].status = 200
                 /\ Len(resp[p].state) = 1
                 /\ resp[p].state[1] \in minted
                 /\ Validate(resp[p].state[1], sessionSecret)
    /\ \A p \in Procs :
          kind[p] = "callback" /\ Len(st[p]) = 1 /\ st[p][1] \in minted
              => Has(p, "validate_ok") /\ resp[p].reason # "failed_state_validation"

C7_Witness ==
    \E p, q \in Procs :
        /\ kind[p] = "callback" /\ Len(st[p]) = 1 /\ st[p][1] \in minted
        /\ Has(p, "validate_ok")
        /\ Served(q, "logout")
        /\ authC = "chan"
        /\ Cardinality(minted) > 1

\* C8 as claimed: a state is consumed by the callback request that accepts
\* it: no two callback requests pass state validation with the same state.
C8_ConsumedOnce ==
    \A p, q \in Procs :
        /\ p # q
        /\ kind[p] = "callback" /\ Has(p, "validate_ok")
        /\ kind[q] = "callback" /\ Has(q, "validate_ok")
        => st[p] # st[q]

\* C8, amended: a state is not consumed: when a callback request has accepted
\* a state, every callback request that presents the same state passes state
\* validation as well.
C8_StateReplayable ==
    \A p, q \in Procs :
        /\ kind[p] = "callback" /\ Len(st[p]) = 1
        /\ kind[q] = "callback" /\ Has(q, "validate_ok")
        /\ st[p] = st[q]
        => Has(p, "validate_ok")

C8_Witness ==
    \E p, q \in Procs :
        /\ p # q
        /\ Served(p, "callback") /\ Has(p, "validate_ok")
        /\ kind[q] = "callback" /\ Has(q, "validate_ok")
        /\ st[p] = st[q]

\* C9: with the channel set and no subscriber receiving, a Token() call whose
\* refresh failed, and which runs the invalidation callback, eventually returns.
C9_TokenReturns ==
    \A p \in Procs : (pc[p] = "tk_cb" /\ authC = "chan" /\ ~receiver) ~> (pc[p] = "done")

\* C10 as claimed: a Token() call that failed to refresh on a logged-in
\* identity has run the callback once and sent exactly one false; one that
\* failed without a cached token has sent none.
C10_OneFalse ==
    \A p \in Procs :
        Served(p, "token") /\ resp[p].reason = "refresh_error"
            => IF Has(p, "invalidated")
                 THEN Count(p, "cb") = 1 /\ Count(p, "notify_false") = 1
                 ELSE Count(p, "cb") = 0 /\ Count(p, "notify_false") = 0

C10_CallbackOnce ==
    \A p \in Procs :
        Served(p, "token") /\ resp[p].reason = "refresh_error"
            => IF Has(p, "invalidated")
                 THEN Count(p, "cb") = 1 /\ Count(p, "notify_false") <= 1
                 ELSE Count(p, "cb") = 0 /\ Count(p, "notify_false") = 0

\* C10, amended: a Token() call that fails to refresh on a logged-in identity
\* clears the cached token and runs the callback once; the callback sends
\* exactly one false if the channel is set when it runs, and nothing if it is
\* not; a call that fails without a cached token does not run the callback.
C10_OneFalseIfChannel ==
    /\ []C10_CallbackOnce
    /\ [][\A p \in Procs :
             pc[p] # "tk_cb" /\ pc'[p] = "tk_cb" => cached # NoToken /\ cached' = NoToken]_vars
    /\ [][\A p \in Procs :
             pc[p] = "tk_cb" /\ pc'[p] = "done"
                 => /\ CountIn(trace'[p], "notify_false") = IF authC = "chan" THEN 1 ELSE 0
                    /\ authC = "chan" => last' = "false"]_vars

C10_Witness ==
    \E p \in Procs :
        /\ Served(p, "token")
        /\ Has(p, "invalidated")
        /\ Count(p, "notify_false") = 1
        /\ cached = NoToken

\* C11: a callback request whose query has an error parameter is answered at
\* once with 200 and the body that reports the error (the dump of the parsed
\* query when the query is also malformed); it does not validate, exchange,
\* apply or notify anything and sends no redirect, whatever state and code the
\* same query carries.
C11_ErrorParameter ==
    \A p \in Procs :
        kind[p] = "callback" /\ req[p].hasError
            => /\ pc[p] = "done"
               /\ resp[p].status = 200
               /\ resp[p].reason = IF req[p].parseErr THEN "invalid_query"
                                                      ELSE "provider_error"
               /\ resp[p].location = ""
               /\ trace[p] = <<>>
               /\ tok[p] = NoToken

\* An error parameter next to an acceptable state and code, with a token cached.
C11_Witness ==
    \E p \in Procs :
        /\ Served(p, "callback")
        /\ req[p].hasError /\ ~req[p].parseErr /\ req[p].good
        /\ resp[p].reason = "provider_error"
        /\ cached # NoToken

\* A step by which goroutine p answers a login request.
LoginStep(p) ==
    /\ Free(p)
    /\ kind'[p] = "login"
    /\ <<kind[p], resp[p]>> # <<kind'[p], resp'[p]>>

\* What a login step may change: the answer of its goroutine and the history
\* of issued strings, which is the world's knowledge, not the identity's.
LoginFrame(p) ==
    /\ UNCHANGED <<cached, sessionSecret, redirectURL, authC>>
    /\ UNCHANGED <<receiver, last, stuck, nextTok>>
    /\ \A q \in Procs \ {p} :
          /\ pc'[q] = pc[q]
          /\ trace'[q] = trace[q]
          /\ resp'[q] = resp[q]
    /\ trace'[p] = <<>>
    /\ pc'[p] = "done"
    /\ resp'[p].status = 200
    /\ resp'[p].reason = "loginUri"
    /\ Len(resp'[p].state) = 1

\* C12: a login request is accepted in every state by every goroutine not busy
\* with another request, and its step changes neither the cached token, the
\* session secret, the redirect URL nor the channel, delivers nothing to the
\* subscriber, disturbs no other request and answers 200 with a loginUri.
C12_LoginNoSideEffect ==
    /\ [](\A p \in Procs : Free(p) => ENABLED (\E n \in Nonces : LoginHandler(p, n)))
    /\ [][\A p \in Procs : LoginStep(p) => LoginFrame(p)]_vars

\* Two login requests outstanding at once, answered while logged in.
C12_Witness ==
    /\ Served("g1", "login") /\ Served("g2", "login")
    /\ resp["g1"].state # resp["g2"].state
    /\ cached # NoToken
    /\ last = "true"

\* A request that has applied its change and is about to notify, or has.
Notifies(p) ==
    \/ kind[p] = "logout"
    \/ kind[p] = "callback" /\ Has(p, "apply")

\* C13: with a subscriber that keeps receiving from the channel, every logout
\* request and every callback request that has applied its token is answered
\* in the end, and is answered only after the subscriber has taken its
\* notification.
C13_AnsweredAfterReceive ==
    /\ \A p \in Procs :
          (authC = "chan" /\ pc[p] \in {"lo_send", "cb_send"}) ~> (pc[p] = "done")
    /\ [](\A p \in Procs :
            Notifies(p) /\ pc[p] = "done"
                => Has(p, "notify_true") \/ Has(p, "notify_false"))

\* The positions of the WithToken options in a list of options.
TokenOptions(os) == {j \in 1..Len(os) : os[j].name = "WithToken"}

\* The greatest element of a non-empty set of numbers.
Last(S) == CHOOSE j \in S : \A k \in S : k <= j

\* C14: while NewIdentity runs nothing is delivered to any subscriber; the
\* options applied so far are the first ones of the list, in order, none of
\* them after the secret generation or an earlier option failed; and when
\* NewIdentity returns without error every option was applied and the cached
\* token is the one of the last WithToken option, no token if there is none.
C14_WarmStart ==
    /\ ctor.phase # "serving"
          => /\ last = "none"
             /\ authC = "nil"
             /\ \A p \in Procs : pc[p] = "idle" /\ trace[p] = <<>>
    /\ Len(ctor.applied) <= ctor.i
    /\ \A j \in 1..Len(ctor.applied) :
          /\ ctor.applied[j] = j
          /\ sessionSecret = OwnSecret
          /\ \A k \in 1..(j - 1) : ctor.options[k].name # "failing"
    /\ ctor.phase = "returned"
          => ctor.err = \/ sessionSecret # OwnSecret
                        \/ \E j \in 1..Len(ctor.options) : ctor.options[j].name = "failing"
    /\ ctor.phase = "returned" /\ ~ctor.err
          => /\ Len(ctor.applied) = Len(ctor.options)
             /\ cached = IF TokenOptions(ctor.options) = {}
                            THEN NoToken
                            ELSE ctor.options[Last(TokenOptions(ctor.options))].t

\* NewIdentity has returned without error from two WithToken options with
\* different tokens.
C14_Witness ==
    /\ ctor.phase = "returned"
    /\ ~ctor.err
    /\ Len(ctor.options) = 2
    /\ TokenOptions(ctor.options) = {1, 2}
    /\ ctor.options[1].t # ctor.options[2].t
    /\ cached = ctor.options[2].t

\* No request is under way and the subscriber is not held up in a call of its own.
Quiescent == (\A p \in Procs : Free(p)) /\ ~stuck

\* C15: once all requests have completed, the last value the subscriber
\* received agrees with the token source: after true a token is cached, after
\* false none is.
C15_LastAgrees ==
    Quiescent
        => /\ last = "true" => cached # NoToken
           /\ last = "false" => cached = NoToken

\* C16: while the channel is unset, an invalidation callback, a logout request
\* and a callback request that have come to their notification do not wait
\* there forever: they complete, unless the channel is set in the meantime.
C16_UnsetChannelNoBlock ==
    \A p \in Procs :
        (authC = "nil" /\ pc[p] \in {"tk_cb", "lo_send", "cb_send"})
            ~> (pc[p] = "done" \/ authC # "nil")
====
